---------------------------- MODULE Spec2Model ----------------------------
(* A model of EdlinOrg/prominentcolor: the background masker of imgprep.go  *)
(* (ProcessImg, ProcessImgOutline, ignorePixel) and the K-means engine of   *)
(* kmeans.go (KmeansWithAll, seeding, refinement rounds, sortCentroids).    *)
(* The image handed to ProcessImg is the model's input: cropping and        *)
(* resizing are done by external libraries before it.                       *)
EXTENDS Integers, Sequences, FiniteSets, TLC

VARIABLES
    pc,               \* position in ProcessImg / KmeansWithAll
    rect,             \* imgDraw.Bounds()
    orgimg,           \* the pixels ProcessImg was given (never written)
    img,              \* imgDraw: the pixels, written by markPixel
    bgmasks,          \* the ordered mask list
    foundMaskThatmatched, \* whether ProcessImg found a mask
    bgmaskToUse,      \* the mask ProcessImg selected
    pointsToProcess,  \* the work-list of ProcessImgOutline
    k,                \* number of clusters asked for
    arguments,        \* the Argument* bits
    allColors,        \* extractColorsAsArray's result
    numPixels,        \* extractColors' second result
    centroids,        \* the current centroid list
    taken,            \* indices the seeder has taken
    kk,               \* kmeansPlusPlusSeed's round counter
    cent,             \* the buckets
    rounds,           \* refinement rounds run
    changes,          \* bucket changes of the last round
    result,           \* the returned list: [isNil, items]
    err,              \* the returned error (Nil when nil)
    nanAsUint32,      \* what uint32(NaN) gives in this build
    da, db,           \* the two colours handed to distanceRGB
    dist              \* what distanceRGB returned for them

vars == <<pc, rect, orgimg, img, bgmasks, foundMaskThatmatched, bgmaskToUse,
          pointsToProcess, k,
          arguments, allColors, numPixels, centroids, taken, kk, cent,
          rounds, changes, result, err, nanAsUint32, da, db, dist>>

maskVars == <<rect, orgimg, img, bgmasks, foundMaskThatmatched, bgmaskToUse,
              pointsToProcess>>
kmeansVars == <<k, arguments, allColors, numPixels, centroids, taken, kk,
                cent, rounds, changes, result, err, nanAsUint32>>
distVars == <<da, db, dist>>

Nil == "nil"

-----------------------------------------------------------------------------
(* Bounds of the model.                                                     *)

\* largest width of an image given to KmeansWithAll (its height is 1)
MaxPixels == 3
\* largest number of pixels (width * height) of an image given to ProcessImg alone
MaskMaxPixels == 6
\* largest k
MaxK == 2
\* the channel values given to distanceRGB are within EdgeWidth of 0 or 255
EdgeWidth == 1
\* largest width of an image of SpecCluster (its height is 1)
MaxClusterPixels == 4
\* largest k of SpecCluster
MaxClusterK == 3
\* largest number of pixels (width * height) of an image of SpecFill
FillMaxPixels == 4

-----------------------------------------------------------------------------
(* Program constants.                                                       *)

ArgumentDefault == 0
ArgumentSeedRandom == 2
ArgumentAverageMean == 4
ArgumentNoCropping == 8
ArgumentLAB == 16
ArgumentDebugImage == 32
DefaultK == 3
maxRounds == 5000
divby == 256
\* the float64 of a.DistanceLab(b) is kept as the integer of its LabScale-ths
LabScale == 10000

\* ColorBackgroundMask; PercDiff is kept as the fraction PercNum / PercDen
MaskWhite == [R |-> TRUE, G |-> TRUE, B |-> TRUE, Treshold |-> 49152,
              PercNum |-> 0, PercDen |-> 1]
MaskBlack == [R |-> FALSE, G |-> FALSE, B |-> FALSE, Treshold |-> 20480,
              PercNum |-> 0, PercDen |-> 1]
MaskGreen == [R |-> FALSE, G |-> TRUE, B |-> FALSE, Treshold |-> 0,
              PercNum |-> 9, PercDen |-> 10]

GetDefaultMasks == <<MaskWhite, MaskBlack, MaskGreen>>

\* IsBitSet: lookingfor == (bitset & lookingfor), lookingfor a single bit
IsBitSet(bitset, lookingfor) ==
    lookingfor = 0 \/ (bitset \div lookingfor) % 2 = 1

-----------------------------------------------------------------------------
(* Pixels and colours.                                                      *)

\* a pixel of an image.RGBA: four 8-bit values
Pix(r, g, b, a) == [R |-> r, G |-> g, B |-> b, A |-> a]

\* color.RGBA.RGBA(): each 8-bit value v widened to 16 bits, v | v << 8
RGBA16(v) == v * 257

\* isPixelTransparent
isPixelTransparent(p, image) == RGBA16(image[p].A) = 0

\* markPixel: Set(x, y, color.RGBA{255, 0, 255, 0})
markPixel(p, image) == [image EXCEPT ![p] = Pix(255, 0, 255, 0)]

\* ratio val/base > PercDiff in float32: x/0 is +Inf for x > 0 and NaN for
\* x = 0, and a comparison with NaN is false
RatioAbove(val, base, bgmask) ==
    IF base = 0 THEN val > 0
    ELSE val * bgmask.PercDen > base * bgmask.PercNum

\* ignorePixel on the pixel value px
ignorePixelValue(px, bgmask) ==
    LET r == RGBA16(px.R)
        g == RGBA16(px.G)
        b == RGBA16(px.B)
        a == RGBA16(px.A)
        chans == <<[flag |-> bgmask.R, v |-> r], [flag |-> bgmask.G, v |-> g],
                   [flag |-> bgmask.B, v |-> b]>>
        baseArr == {chans[i].v : i \in {j \in 1..3 : chans[j].flag}}
        aArr == {chans[i].v : i \in {j \in 1..3 : ~chans[j].flag}}
    IN  IF a = 0 THEN TRUE
        ELSE IF ~(bgmask.R \/ bgmask.G \/ bgmask.B)
        THEN ~(r > bgmask.Treshold) /\ ~(g > bgmask.Treshold)
                /\ ~(b > bgmask.Treshold)
        ELSE IF ~(bgmask.R /\ bgmask.G /\ bgmask.B)
        THEN \A val \in aArr : \A base \in baseArr :
                ~RatioAbove(val, base, bgmask)
        ELSE ~(bgmask.R /\ r < bgmask.Treshold)
                /\ ~(bgmask.G /\ g < bgmask.Treshold)
                /\ ~(bgmask.B /\ b < bgmask.Treshold)

\* ignorePixel(x, y, bgmask, img)
ignorePixel(p, bgmask, image) == ignorePixelValue(image[p], bgmask)

Points(rc) == (rc.MinX .. rc.MaxX - 1) \X (rc.MinY .. rc.MaxY - 1)

\* the four corners, in the order ProcessImgOutline appends them
Corners(rc) == << <<rc.MinX, rc.MinY>>, <<rc.MinX, rc.MaxY - 1>>,
                  <<rc.MaxX - 1, rc.MinY>>, <<rc.MaxX - 1, rc.MaxY - 1>> >>

\* the corner test of ProcessImg for one mask
CornersMatch(bgmask, rc, image) ==
    \A i \in 1..4 : ignorePixel(Corners(rc)[i], bgmask, image)

\* the zero value of ColorBackgroundMask (var bgmaskToUse ColorBackgroundMask)
ZeroMask == [R |-> FALSE, G |-> FALSE, B |-> FALSE, Treshold |-> 0,
             PercNum |-> 0, PercDen |-> 1]

\* the mask loop of ProcessImg from mask i on: sel is
\* [found |-> foundMaskThatmatched, mask |-> bgmaskToUse] so far
RECURSIVE SelectMask(_, _, _, _, _)
SelectMask(masks, i, rc, image, sel) ==
    IF i > Len(masks) THEN sel
    ELSE IF ~CornersMatch(masks[i], rc, image)
    THEN SelectMask(masks, i + 1, rc, image, sel)
    ELSE SelectMask(masks, i + 1, rc, image,
                    [found |-> TRUE, mask |-> masks[i]])

\* Neighbours with the pixels above and below forgotten
NeighboursRowOnly(p, rc, image) ==
    LET x == p[1]
        y == p[2]
        left == IF rc.MinX < x /\ ~isPixelTransparent(<<x - 1, y>>, image)
                THEN << <<x - 1, y>> >> ELSE <<>>
        right == IF x < rc.MaxX - 1 /\ ~isPixelTransparent(<<x + 1, y>>, image)
                 THEN << <<x + 1, y>> >> ELSE <<>>
    IN  left \o right

\* Neighbours with the left neighbour appended at the left edge too
NeighboursBeyondEdge(p, rc, image) ==
    LET x == p[1]
        y == p[2]
        left == IF rc.MinX < x => ~isPixelTransparent(<<x - 1, y>>, image)
                THEN << <<x - 1, y>> >> ELSE <<>>
        right == IF x < rc.MaxX - 1 /\ ~isPixelTransparent(<<x + 1, y>>, image)
                 THEN << <<x + 1, y>> >> ELSE <<>>
        up == IF rc.MinY < y /\ ~isPixelTransparent(<<x, y - 1>>, image)
              THEN << <<x, y - 1>> >> ELSE <<>>
        down == IF y < rc.MaxY - 1 /\ ~isPixelTransparent(<<x, y + 1>>, image)
                THEN << <<x, y + 1>> >> ELSE <<>>
    IN  left \o right \o up \o down

\* the neighbours ProcessImgOutline appends after marking p, in its order;
\* image is the image after the marking
Neighbours(p, rc, image) ==
    LET x == p[1]
        y == p[2]
        left == IF rc.MinX < x /\ ~isPixelTransparent(<<x - 1, y>>, image)
                THEN << <<x - 1, y>> >> ELSE <<>>
        right == IF x < rc.MaxX - 1 /\ ~isPixelTransparent(<<x + 1, y>>, image)
                 THEN << <<x + 1, y>> >> ELSE <<>>
        up == IF rc.MinY < y /\ ~isPixelTransparent(<<x, y - 1>>, image)
              THEN << <<x, y - 1>> >> ELSE <<>>
        down == IF y < rc.MaxY - 1 /\ ~isPixelTransparent(<<x, y + 1>>, image)
                THEN << <<x, y + 1>> >> ELSE <<>>
    IN  left \o right \o up \o down

-----------------------------------------------------------------------------
(* uint32 arithmetic.  A uint32 is held as the integer of the same 32 bits  *)
(* read as two's complement (4294967295 is -1), and computed with as four   *)
(* bytes, lowest first.                                                     *)

\* the four bytes of a uint32
ToBytes(n) ==
    LET m == IF n < 0 THEN (n + 2147483647) + 1 ELSE n
        top == (m \div 16777216) + (IF n < 0 THEN 128 ELSE 0)
    IN  <<m % 256, (m \div 256) % 256, (m \div 65536) % 256, top>>

\* the uint32 of four bytes
FromBytes(x) ==
    LET low == x[1] + 256 * x[2] + 65536 * x[3]
    IN  IF x[4] >= 128
        THEN ((x[4] - 128) * 16777216 + low - 2147483647) - 1
        ELSE x[4] * 16777216 + low

\* x - y modulo 2^32
SubU32(x, y) ==
    LET d1 == x[1] - y[1]
        b1 == IF d1 < 0 THEN 1 ELSE 0
        d2 == x[2] - y[2] - b1
        b2 == IF d2 < 0 THEN 1 ELSE 0
        d3 == x[3] - y[3] - b2
        b3 == IF d3 < 0 THEN 1 ELSE 0
        d4 == x[4] - y[4] - b3
    IN  <<d1 % 256, d2 % 256, d3 % 256, d4 % 256>>

\* x + y modulo 2^32
AddU32(x, y) ==
    LET s1 == x[1] + y[1]
        s2 == x[2] + y[2] + s1 \div 256
        s3 == x[3] + y[3] + s2 \div 256
        s4 == x[4] + y[4] + s3 \div 256
    IN  <<s1 % 256, s2 % 256, s3 % 256, s4 % 256>>

\* x * y modulo 2^32
MulU32(x, y) ==
    LET c1 == x[1] * y[1]
        c2 == x[1] * y[2] + x[2] * y[1] + c1 \div 256
        c3 == x[1] * y[3] + x[2] * y[2] + x[3] * y[1] + c2 \div 256
        c4 == x[1] * y[4] + x[2] * y[3] + x[3] * y[2] + x[4] * y[1]
                + c3 \div 256
    IN  <<c1 % 256, c2 % 256, c3 % 256, c4 % 256>>

\* float64(x) of a uint32 x: its value as a number
Float64(x) == x[1] + 256 * x[2] + 65536 * x[3] + 16777216 * x[4]

-----------------------------------------------------------------------------
(* ColorItem, AsString, createColor.                                        *)

ColorItem(r, g, b, cnt) == [Color |-> [R |-> r, G |-> g, B |-> b], Cnt |-> cnt]

\* the character of a hexadecimal digit, as its byte: "0".."9", "A".."F"
HexChar(d) == IF d < 10 THEN 48 + d ELSE 55 + d

\* Sprintf("%.2X", v): the upper-case hexadecimal digits of v, at least two
Hex2X(v) ==
    LET x == ToBytes(v)
        digits == <<x[4] \div 16, x[4] % 16, x[3] \div 16, x[3] % 16,
                    x[2] \div 16, x[2] % 16, x[1] \div 16, x[1] % 16>>
        lead == IF \E i \in 1..6 : digits[i] # 0
                THEN CHOOSE i \in 1..6 :
                        digits[i] # 0 /\ \A j \in 1..(i - 1) : digits[j] = 0
                ELSE 7
    IN  [i \in 1..(9 - lead) |-> HexChar(digits[lead + i - 1])]

\* ColorItem.AsString: a string is the sequence of its bytes
AsString(c) == Hex2X(c.Color.R) \o Hex2X(c.Color.G) \o Hex2X(c.Color.B)

\* s < t on strings: byte-wise lexical order
RECURSIVE StrLess(_, _)
StrLess(s, t) ==
    IF Len(t) = 0 THEN FALSE
    ELSE IF Len(s) = 0 THEN TRUE
    ELSE IF Head(s) # Head(t) THEN Head(s) < Head(t)
    ELSE StrLess(Tail(s), Tail(t))

\* createColor without the test of alpha
createColorKeepsTransparent(px) ==
    [ignore |-> FALSE,
     item |-> ColorItem(RGBA16(px.R) \div divby, RGBA16(px.G) \div divby,
                        RGBA16(px.B) \div divby, 0)]

\* createColor: [ignore, item]
createColor(px) ==
    LET r == RGBA16(px.R)
        g == RGBA16(px.G)
        b == RGBA16(px.B)
        a == RGBA16(px.A)
    IN  IF a = 0
        THEN [ignore |-> TRUE, item |-> ColorItem(0, 0, 0, 0)]
        ELSE [ignore |-> FALSE,
              item |-> ColorItem(r \div divby, g \div divby, b \div divby, 0)]

-----------------------------------------------------------------------------
(* Sorting, distance, centroids.                                            *)

\* byColorCnt.Less with the strings of equal counts compared the other way
byColorCntLessTiesSwapped(a, b) ==
    IF a.Cnt = b.Cnt THEN StrLess(AsString(b), AsString(a))
    ELSE a.Cnt < b.Cnt

\* byColorCnt.Less
byColorCntLess(a, b) ==
    IF a.Cnt = b.Cnt THEN StrLess(AsString(a), AsString(b))
    ELSE a.Cnt < b.Cnt

\* sort.Reverse(byColorCnt(...)).Less
reverseLess(a, b) == byColorCntLess(b, a)

\* cs, sorted by reverseLess, with x put before the first element x is less than
RECURSIVE insertCentroid(_, _)
insertCentroid(cs, x) ==
    IF Len(cs) = 0 THEN <<x>>
    ELSE IF reverseLess(x, Head(cs)) THEN <<x>> \o cs
    ELSE <<Head(cs)>> \o insertCentroid(Tail(cs), x)

\* sort.Sort(sort.Reverse(byColorCnt(cs))): cs in an order in which no
\* element is less (by reverseLess) than an earlier one
RECURSIVE sortReverse(_)
sortReverse(cs) ==
    IF Len(cs) = 0 THEN <<>>
    ELSE insertCentroid(sortReverse(Tail(cs)), Head(cs))

\* cs, sorted by byColorCnt.Less, with x put before the first element x is
\* less than
RECURSIVE insertCentroidAscending(_, _)
insertCentroidAscending(cs, x) ==
    IF Len(cs) = 0 THEN <<x>>
    ELSE IF byColorCntLess(x, Head(cs)) THEN <<x>> \o cs
    ELSE <<Head(cs)>> \o insertCentroidAscending(Tail(cs), x)

\* sortCentroids with sort.Reverse forgotten
RECURSIVE sortCentroidsAscending(_)
sortCentroidsAscending(cs) ==
    IF Len(cs) = 0 THEN <<>>
    ELSE insertCentroidAscending(sortCentroidsAscending(Tail(cs)), Head(cs))

\* sortCentroids
sortCentroids(cs) == sortReverse(cs)

RECURSIVE insertInt(_, _)
insertInt(s, x) ==
    IF Len(s) = 0 THEN <<x>>
    ELSE IF x < Head(s) THEN <<x>> \o s
    ELSE <<Head(s)>> \o insertInt(Tail(s), x)

\* sort.Ints
RECURSIVE SortInts(_)
SortInts(s) ==
    IF Len(s) = 0 THEN <<>> ELSE insertInt(SortInts(Tail(s)), Head(s))

\* distanceRGB computed in 16 bits instead of 32
distanceRGB16(c, p) ==
    LET low(x) == <<x[1], x[2], 0, 0>>
        r == ToBytes(c.Color.R)
        g == ToBytes(c.Color.G)
        b == ToBytes(c.Color.B)
        r2 == ToBytes(p.Color.R)
        g2 == ToBytes(p.Color.G)
        b2 == ToBytes(p.Color.B)
        dr == low(SubU32(r, r2))
        dg == low(SubU32(g, g2))
        db2 == low(SubU32(b, b2))
    IN  Float64(low(AddU32(AddU32(low(MulU32(dr, dr)), low(MulU32(dg, dg))),
                           low(MulU32(db2, db2)))))

\* distanceRGB: the uint32 expression, then float64 of it
distanceRGB(c, p) ==
    LET r == ToBytes(c.Color.R)
        g == ToBytes(c.Color.G)
        b == ToBytes(c.Color.B)
        r2 == ToBytes(p.Color.R)
        g2 == ToBytes(p.Color.G)
        b2 == ToBytes(p.Color.B)
        dr == SubU32(r, r2)
        dg == SubU32(g, g2)
        db2 == SubU32(b, b2)
    IN  Float64(AddU32(AddU32(MulU32(dr, dr), MulU32(dg, dg)),
                       MulU32(db2, db2)))

\* colorful.Hex("#" + AsString): the scan of "#%02x%02x%02x" takes a string
\* of 7 bytes, "#" and six hexadecimal digits, which AsString gives when
\* every channel is at most 255; a longer string is an error
HexFails(c) == Len(AsString(c)) # 6

\* Color.Lab() of go-colorful (sRGB, D65) on the colours the model builds:
\* <<L, a, b>> in units of 1/LabScale, rounded
LabTable ==
    <<0, 0, 0>> :> <<0, 0, 0>> @@
    <<10, 100, 160>> :> <<4076, -81, -3905>> @@
    <<25, 95, 90>> :> <<3623, -2238, -337>> @@
    <<30, 30, 0>> :> <<1059, -507, 1569>> @@
    <<45, 0, 0>> :> <<504, 2179, 797>> @@
    <<50, 20, 0>> :> <<1040, 1343, 1585>> @@
    <<53, 33, 0>> :> <<1465, 620, 2168>> @@
    <<60, 0, 0>> :> <<866, 2853, 1369>> @@
    <<60, 40, 0>> :> <<1782, 531, 2586>> @@
    <<60, 60, 0>> :> <<2430, -768, 3294>> @@
    <<62, 25, 0>> :> <<1394, 1628, 2105>> @@
    <<63, 13, 0>> :> <<1159, 2346, 1792>> @@
    <<75, 30, 0>> :> <<1758, 1948, 2614>> @@
    <<80, 50, 0>> :> <<2363, 939, 3308>> @@
    <<83, 33, 0>> :> <<1975, 2142, 2907>> @@
    <<90, 0, 0>> :> <<1638, 3745, 2541>> @@
    <<90, 40, 0>> :> <<2263, 2055, 3256>> @@
    <<90, 60, 0>> :> <<2786, 816, 3751>> @@
    <<95, 20, 0>> :> <<1978, 3276, 2974>> @@
    <<100, 40, 0>> :> <<2441, 2507, 3495>> @@
    <<100, 60, 0>> :> <<2927, 1319, 3923>> @@
    <<40, 90, 20>> :> <<3359, -3079, 3341>> @@
    <<40, 100, 40>> :> <<3733, -3286, 2790>> @@
    <<40, 100, 160>> :> <<4138, 194, -3803>> @@
    <<40, 143, 73>> :> <<5248, -4505, 2891>> @@
    <<40, 170, 100>> :> <<6176, -5045, 2649>> @@
    <<55, 165, 30>> :> <<5972, -5460, 5533>> @@
    <<70, 240, 40>> :> <<8385, -7520, 7489>> @@
    <<70, 240, 160>> :> <<8508, -6089, 2651>>

Lab(c) == LabTable[<<c.Color.R, c.Color.G, c.Color.B>>]

\* the integer square root of n, looked for between lo and hi
RECURSIVE SqrtBetween(_, _, _)
SqrtBetween(n, lo, hi) ==
    IF lo >= hi THEN lo
    ELSE LET m == (lo + hi + 1) \div 2
         IN  IF m * m <= n THEN SqrtBetween(n, m, hi)
             ELSE SqrtBetween(n, lo, m - 1)

\* Color.DistanceLab: the Euclidean distance of the Lab coordinates, in
\* units of 1/LabScale
DistanceLab(a, b) ==
    LET sq(x) == x * x
        n == sq(a[1] - b[1]) + sq(a[2] - b[2]) + sq(a[3] - b[3])
    IN  SqrtBetween(n, 0, 2 * LabScale)

\* distanceLAB: a conversion fails
distanceLABFails(c, p) == HexFails(c) \/ HexFails(p)

\* distanceLAB, the value returned: when a conversion fails log.Fatal ends
\* the process, and the return of distanceRGB(c, p) after it is never reached
distanceLAB(c, p) == DistanceLab(Lab(c), Lab(p))

\* distance ends the process (log.Fatal in distanceLAB)
distanceIsFatal(args, c, p) ==
    IsBitSet(args, ArgumentLAB) /\ distanceLABFails(c, p)

\* distance
distance(args, c, p) ==
    IF IsBitSet(args, ArgumentLAB) THEN distanceLAB(c, p)
    ELSE distanceRGB(c, p)

\* the loop of findClosest from index i on (indices from 1)
RECURSIVE findClosestFrom(_, _, _, _, _, _)
findClosestFrom(args, c, cs, i, closestIdx, closestDistance) ==
    IF i > Len(cs) THEN closestIdx
    ELSE LET d == distance(args, c, cs[i])
         IN  IF d < closestDistance
             THEN findClosestFrom(args, c, cs, i + 1, i, d)
             ELSE findClosestFrom(args, c, cs, i + 1, closestIdx,
                                  closestDistance)

\* findClosest: the index (from 1) of the closest centroid
findClosest(args, c, cs) ==
    findClosestFrom(args, c, cs, 2, 1, distance(args, c, cs[1]))

RECURSIVE SumCnt(_)
SumCnt(colors) ==
    IF Len(colors) = 0 THEN 0 ELSE Head(colors).Cnt + SumCnt(Tail(colors))

RECURSIVE SumOf(_)
SumOf(ints) == IF Len(ints) = 0 THEN 0 ELSE Head(ints) + SumOf(Tail(ints))

\* mean: uint32(sum / theSize) per channel; for an empty bucket the quotient
\* is NaN, whose conversion to uint32 depends on the build: nan is its result
mean(colors, nan) ==
    LET theSize == Len(colors)
        avg(vals) == IF theSize = 0 THEN nan ELSE SumOf(vals) \div theSize
    IN  [Cnt |-> SumCnt(colors),
         Color |-> [R |-> avg([i \in 1..theSize |-> colors[i].Color.R]),
                    G |-> avg([i \in 1..theSize |-> colors[i].Color.G]),
                    B |-> avg([i \in 1..theSize |-> colors[i].Color.B])]]

\* median with the members of the bucket counted instead of their Cnt summed
medianCountsMembers(colors) ==
    LET n == Len(colors)
        mid(vals) == IF n # 0 THEN SortInts(vals)[(n \div 2) + 1] ELSE 0
    IN  [Cnt |-> n,
         Color |-> [R |-> mid([i \in 1..n |-> colors[i].Color.R]),
                    G |-> mid([i \in 1..n |-> colors[i].Color.G]),
                    B |-> mid([i \in 1..n |-> colors[i].Color.B])]]

\* median: per channel the value at index len/2 of the sorted values
median(colors) ==
    LET n == Len(colors)
        mid(vals) == IF n # 0 THEN SortInts(vals)[(n \div 2) + 1] ELSE 0
    IN  [Cnt |-> SumCnt(colors),
         Color |-> [R |-> mid([i \in 1..n |-> colors[i].Color.R]),
                    G |-> mid([i \in 1..n |-> colors[i].Color.G]),
                    B |-> mid([i \in 1..n |-> colors[i].Color.B])]]

\* calculateCentroids from bucket i on, with the empty buckets left out
RECURSIVE calculateCentroidsSkipEmptyFrom(_, _, _, _)
calculateCentroidsSkipEmptyFrom(buckets, args, nan, i) ==
    IF i > Len(buckets) THEN <<>>
    ELSE LET meanColor == IF IsBitSet(args, ArgumentAverageMean)
                          THEN mean(buckets[i], nan)
                          ELSE median(buckets[i])
             rest == calculateCentroidsSkipEmptyFrom(buckets, args, nan, i + 1)
         IN  IF Len(buckets[i]) = 0 THEN rest ELSE <<meanColor>> \o rest

\* calculateCentroids with the empty buckets left out
calculateCentroidsSkipEmpty(buckets, args, nan) ==
    calculateCentroidsSkipEmptyFrom(buckets, args, nan, 1)

\* calculateCentroids
calculateCentroids(buckets, args, nan) ==
    [i \in 1..Len(buckets) |->
        IF IsBitSet(args, ArgumentAverageMean) THEN mean(buckets[i], nan)
        ELSE median(buckets[i])]

\* the pixels in the order extractColors visits them
PointSeq(rc) ==
    LET h == rc.MaxY - rc.MinY
        w == rc.MaxX - rc.MinX
    IN  [i \in 1..(w * h) |->
            <<rc.MinX + ((i - 1) \div h), rc.MinY + ((i - 1) % h)>>]

\* the loop of extractColors with value.Cnt++ forgotten
RECURSIVE extractColorsFromNoCount(_, _, _, _)
extractColorsFromNoCount(image, pts, m, n) ==
    IF Len(pts) = 0 THEN [m |-> m, numPixels |-> n]
    ELSE LET cc == createColor(image[Head(pts)])
             asString == AsString(cc.item)
         IN  IF cc.ignore THEN extractColorsFromNoCount(image, Tail(pts), m, n)
             ELSE IF asString \in DOMAIN m
             THEN extractColorsFromNoCount(image, Tail(pts), m, n + 1)
             ELSE extractColorsFromNoCount(image, Tail(pts),
                    m @@ (asString :> [cc.item EXCEPT !.Cnt = 1]), n + 1)

\* the loop of extractColors over the points pts, from the map m so far
RECURSIVE extractColorsFrom(_, _, _, _)
extractColorsFrom(image, pts, m, n) ==
    IF Len(pts) = 0 THEN [m |-> m, numPixels |-> n]
    ELSE LET cc == createColor(image[Head(pts)])
             asString == AsString(cc.item)
         IN  IF cc.ignore THEN extractColorsFrom(image, Tail(pts), m, n)
             ELSE IF asString \in DOMAIN m
             THEN extractColorsFrom(image, Tail(pts),
                    [m EXCEPT ![asString].Cnt = @ + 1], n + 1)
             ELSE extractColorsFrom(image, Tail(pts),
                    m @@ (asString :> [cc.item EXCEPT !.Cnt = 1]), n + 1)

\* extractColors: the map from hex string to ColorItem, and numPixels
extractColors(image, rc) ==
    extractColorsFrom(image, PointSeq(rc), <<>>, 0)

\* extractColorsAsArray: the values of the map in any order (Go does not
\* fix the order in which range visits a map)
extractColorsAsArray(image, rc) ==
    UNION {LET m == e.m
               n == Cardinality(DOMAIN m)
           IN  {[i \in 1..n |-> m[f[i]]] :
                   f \in {g \in [1..n -> DOMAIN m] :
                           \A i, j \in 1..n : i # j => g[i] # g[j]}} :
           e \in {extractColors(image, rc)}}

-----------------------------------------------------------------------------
(* ProcessImg and ProcessImgOutline.                                        *)

\* ProcessImg up to the call of ProcessImgOutline (which appends the corners)
ProcessImg ==
    /\ pc = "start"
    /\ LET sel == SelectMask(bgmasks, 1, rect, img,
                             [found |-> FALSE, mask |-> ZeroMask])
       IN  /\ foundMaskThatmatched' = sel.found
           /\ bgmaskToUse' = sel.mask
           /\ IF ~sel.found
              THEN /\ pc' = "extract"
                   /\ pointsToProcess' = <<>>
              ELSE /\ pc' = "outline"
                   /\ pointsToProcess' = Corners(rect)
    /\ UNCHANGED <<rect, orgimg, img, bgmasks>>
    /\ UNCHANGED <<kmeansVars, distVars>>

\* one iteration of the work-list loop of ProcessImgOutline
ProcessImgOutlineStep ==
    /\ pc = "outline"
    /\ Len(pointsToProcess) > 0
    /\ LET p == pointsToProcess[Len(pointsToProcess)]
           rest == SubSeq(pointsToProcess, 1, Len(pointsToProcess) - 1)
       IN  IF ~isPixelTransparent(p, img) /\ ignorePixel(p, bgmaskToUse, img)
           THEN /\ img' = markPixel(p, img)
                /\ pointsToProcess' = rest \o Neighbours(p, rect, img')
           ELSE /\ img' = img
                /\ pointsToProcess' = rest
    /\ UNCHANGED <<pc, rect, orgimg, bgmasks, foundMaskThatmatched, bgmaskToUse>>
    /\ UNCHANGED <<kmeansVars, distVars>>

\* one iteration of the work-list loop with the point taken from any place
\* of the work-list (the code takes the last one)
ProcessImgOutlineStepAnyOrder ==
    /\ pc = "outline"
    /\ \E i \in 1..Len(pointsToProcess) :
        LET p == pointsToProcess[i]
            rest == SubSeq(pointsToProcess, 1, i - 1)
                        \o SubSeq(pointsToProcess, i + 1, Len(pointsToProcess))
        IN  IF ~isPixelTransparent(p, img) /\ ignorePixel(p, bgmaskToUse, img)
            THEN /\ img' = markPixel(p, img)
                 /\ pointsToProcess' = rest \o Neighbours(p, rect, img')
            ELSE /\ img' = img
                 /\ pointsToProcess' = rest
    /\ UNCHANGED <<pc, rect, orgimg, bgmasks, foundMaskThatmatched, bgmaskToUse>>
    /\ UNCHANGED <<kmeansVars, distVars>>

\* the work-list loop of ProcessImgOutline run to its end from the image
\* and the work-list pts: the image it leaves
RECURSIVE ProcessImgOutlineFrom(_, _, _, _)
ProcessImgOutlineFrom(image, pts, bgmask, rc) ==
    IF Len(pts) = 0 THEN image
    ELSE LET p == pts[Len(pts)]
             rest == SubSeq(pts, 1, Len(pts) - 1)
         IN  IF ~isPixelTransparent(p, image) /\ ignorePixel(p, bgmask, image)
             THEN ProcessImgOutlineFrom(markPixel(p, image),
                        rest \o Neighbours(p, rc, markPixel(p, image)),
                        bgmask, rc)
             ELSE ProcessImgOutlineFrom(image, rest, bgmask, rc)

\* the work-list is empty: ProcessImgOutline and ProcessImg return
ProcessImgOutlineDone ==
    /\ pc = "outline"
    /\ Len(pointsToProcess) = 0
    /\ pc' = "extract"
    /\ UNCHANGED maskVars
    /\ UNCHANGED <<kmeansVars, distVars>>

-----------------------------------------------------------------------------
(* KmeansWithAll.                                                           *)

NilResult == [isNil |-> TRUE, items |-> <<>>]
Returned(items) == [isNil |-> FALSE, items |-> items]

\* KmeansWithAll from extractColorsAsArray to the call of the seeder: the
\* three shortcuts, and the check kmeansSeed makes of k
KmeansWithAllStart ==
    /\ pc = "extract"
    /\ numPixels' = extractColors(img, rect).numPixels
    /\ \E colors \in extractColorsAsArray(img, rect) :
        LET numColors == Len(colors)
        IN  IF numColors = 0
            THEN /\ allColors' = colors
                 /\ result' = NilResult
                 /\ err' = "no non-alpha pixels found"
                 /\ pc' = "done"
            ELSE IF numColors = 1
            THEN /\ allColors' = colors
                 /\ result' = Returned(colors)
                 /\ err' = Nil
                 /\ pc' = "done"
            ELSE IF numColors <= k
            THEN /\ allColors' = sortCentroids(colors)
                 /\ result' = Returned(allColors')
                 /\ err' = Nil
                 /\ pc' = "done"
            ELSE IF k > Len(colors)
            THEN /\ allColors' = colors
                 /\ result' = NilResult
                 /\ err' = "k larger than len(allColors)"
                 /\ pc' = "done"
            ELSE /\ allColors' = colors
                 /\ pc' = "seed"
                 /\ UNCHANGED <<result, err>>
    /\ UNCHANGED <<k, arguments, centroids, taken, kk, cent, rounds, changes,
                   nanAsUint32>>
    /\ UNCHANGED <<maskVars, distVars>>

\* kmeansSeed has returned: the buckets and counters KmeansWithAll sets
\* before its loop
SeederReturns ==
    /\ cent' = [i \in 1..k |-> IF i = 1 THEN allColors ELSE <<>>]
    /\ rounds' = 0
    /\ changes' = 1
    /\ pc' = "loop"

\* kmeansSeedRandom: k different indices, in the order they were drawn
kmeansSeedRandom ==
    /\ pc = "seed"
    /\ IsBitSet(arguments, ArgumentSeedRandom)
    /\ \E idx \in {f \in [1..k -> 1..Len(allColors)] :
                      \A i, j \in 1..k : i # j => f[i] # f[j]} :
          /\ centroids' = [i \in 1..k |-> allColors[idx[i]]]
          /\ taken' = {idx[i] : i \in 1..k}
    /\ SeederReturns
    /\ UNCHANGED <<k, arguments, allColors, numPixels, kk, result, err,
                   nanAsUint32>>
    /\ UNCHANGED <<maskVars, distVars>>

\* kmeansPlusPlusSeed up to its loop: the first centroid
kmeansPlusPlusSeedFirst ==
    /\ pc = "seed"
    /\ ~IsBitSet(arguments, ArgumentSeedRandom)
    /\ \E initIdx \in 1..Len(allColors) :
          /\ centroids' = <<allColors[initIdx]>>
          /\ taken' = {initIdx}
    /\ kk' = 1
    /\ IF kk' < k
       THEN pc' = "plusplus" /\ UNCHANGED <<cent, rounds, changes>>
       ELSE SeederReturns
    /\ UNCHANGED <<k, arguments, allColors, numPixels, result, err,
                   nanAsUint32>>
    /\ UNCHANGED <<maskVars, distVars>>

\* the loop over the centroids: the least distance from them to c
RECURSIVE minDistanceToCluster(_, _, _, _, _)
minDistanceToCluster(args, cs, c, i, min) ==
    IF i > Len(cs) THEN min
    ELSE LET d == distance(args, cs[i], c)
         IN  minDistanceToCluster(args, cs, c, i + 1,
                IF min = -1 \/ d < min THEN d ELSE min)

\* point2distance of one round of kmeansPlusPlusSeed
point2distance(args, cs, tk, colors) ==
    [j \in 1..Len(colors) |->
        IF j \in tk THEN 0
        ELSE LET m == minDistanceToCluster(args, cs, colors[j], 1, -1)
             IN  m * m]

\* sofar when the selection loop looks at index j: the weights before j
sofarAt(p2d, j) == SumOf(SubSeq(p2d, 1, j - 1))

\* rand.Float64() * totaldistances: a number r of [0, total) is compared
\* only with the values sofar takes, so r stands for the least of them
\* that is at least r, and for total when none is
RndPoints(p2d) == {sofarAt(p2d, j) : j \in 1..(Len(p2d) + 1)}

\* the selection loop: the index appended (0: the loop ends without one)
Selected(p2d, rndpoint) ==
    IF \E j \in 1..Len(p2d) : rndpoint <= sofarAt(p2d, j)
    THEN CHOOSE j \in 1..Len(p2d) :
            /\ rndpoint <= sofarAt(p2d, j)
            /\ \A i \in 1..(j - 1) : ~(rndpoint <= sofarAt(p2d, i))
    ELSE 0

\* one round of the loop of kmeansPlusPlusSeed
kmeansPlusPlusSeedRound ==
    /\ pc = "plusplus"
    /\ kk < k
    /\ \E p2d \in {point2distance(arguments, centroids, taken, allColors)} :
           \E rndpoint \in RndPoints(p2d) :
            LET j == Selected(p2d, rndpoint)
            IN  IF j # 0
                THEN /\ centroids' = Append(centroids, allColors[j])
                     /\ taken' = taken \cup {j}
                ELSE UNCHANGED <<centroids, taken>>
    /\ kk' = kk + 1
    /\ IF kk' < k
       THEN pc' = "plusplus" /\ UNCHANGED <<cent, rounds, changes>>
       ELSE SeederReturns
    /\ UNCHANGED <<k, arguments, allColors, numPixels, result, err,
                   nanAsUint32>>
    /\ UNCHANGED <<maskVars, distVars>>

\* the assignment loops with a sample that moves left in its old bucket too
RECURSIVE assignFromKeepingMoved(_, _, _, _, _, _, _)
assignFromKeepingMoved(args, cs, buckets, i, e, tmpCent, ch) ==
    IF i > Len(buckets) THEN [tmpCent |-> tmpCent, changes |-> ch]
    ELSE IF e > Len(buckets[i])
    THEN assignFromKeepingMoved(args, cs, buckets, i + 1, 1, tmpCent, ch)
    ELSE LET aColor == buckets[i][e]
             closestCentroid == findClosest(args, aColor, cs)
         IN  assignFromKeepingMoved(args, cs, buckets, i, e + 1,
                [tmpCent EXCEPT ![closestCentroid] = Append(@, aColor),
                                ![i] = IF closestCentroid # i
                                       THEN Append(@, aColor) ELSE @],
                IF closestCentroid # i THEN ch + 1 ELSE ch)

\* the assignment loops of one round, from bucket i, element e on:
\* [tmpCent, changes]
RECURSIVE assignFrom(_, _, _, _, _, _, _)
assignFrom(args, cs, buckets, i, e, tmpCent, ch) ==
    IF i > Len(buckets) THEN [tmpCent |-> tmpCent, changes |-> ch]
    ELSE IF e > Len(buckets[i])
    THEN assignFrom(args, cs, buckets, i + 1, 1, tmpCent, ch)
    ELSE LET aColor == buckets[i][e]
             closestCentroid == findClosest(args, aColor, cs)
         IN  assignFrom(args, cs, buckets, i, e + 1,
                [tmpCent EXCEPT ![closestCentroid] = Append(@, aColor)],
                IF closestCentroid # i THEN ch + 1 ELSE ch)

\* a comparison of the round ends the process: findClosest compares every
\* member of a bucket with every centroid (in kmeansPlusPlusSeed the
\* centroids are samples, whose channels are at most 255)
roundIsFatal(args, cs, buckets) ==
    \E i \in 1..Len(buckets) : \E e \in 1..Len(buckets[i]) :
        \E j \in 1..Len(cs) : distanceIsFatal(args, buckets[i][e], cs[j])

\* one round of a loop that goes on after a round without changes
KmeansRoundIgnoringChanges ==
    /\ pc = "loop"
    /\ rounds < maxRounds
    /\ IF roundIsFatal(arguments, centroids, cent)
       THEN /\ pc' = "fatal"
            /\ UNCHANGED <<changes, cent, centroids, rounds>>
       ELSE \E a \in {assignFrom(arguments, centroids, cent, 1, 1,
                                  [i \in 1..k |-> <<>>], 0)} :
                /\ changes' = a.changes
                /\ cent' = a.tmpCent
                /\ centroids' = calculateCentroids(a.tmpCent, arguments,
                                                   nanAsUint32)
                /\ rounds' = rounds + 1
                /\ pc' = pc
    /\ taken' = {} /\ kk' = 0
    /\ UNCHANGED <<k, arguments, allColors, numPixels, result, err,
                   nanAsUint32>>
    /\ UNCHANGED <<maskVars, distVars>>

\* one round of the refinement loop
KmeansRound ==
    /\ pc = "loop"
    /\ changes > 0 /\ rounds < maxRounds
    /\ IF roundIsFatal(arguments, centroids, cent)
       THEN /\ pc' = "fatal"
            /\ UNCHANGED <<changes, cent, centroids, rounds>>
       ELSE \E a \in {assignFrom(arguments, centroids, cent, 1, 1,
                                  [i \in 1..k |-> <<>>], 0)} :
                /\ changes' = a.changes
                /\ cent' = a.tmpCent
                /\ centroids' = calculateCentroids(a.tmpCent, arguments,
                                                   nanAsUint32)
                /\ rounds' = rounds + 1
                /\ pc' = pc
    \* taken and kk went out of scope when the seeder returned
    /\ taken' = {} /\ kk' = 0
    /\ UNCHANGED <<k, arguments, allColors, numPixels, result, err,
                   nanAsUint32>>
    /\ UNCHANGED <<maskVars, distVars>>

\* the loop has ended: sortCentroids and return
KmeansReturn ==
    /\ pc = "loop"
    /\ ~(changes > 0 /\ rounds < maxRounds)
    /\ centroids' = sortCentroids(centroids)
    /\ result' = Returned(centroids')
    /\ err' = Nil
    /\ pc' = "done"
    /\ UNCHANGED <<k, arguments, allColors, numPixels, taken, kk, cent, rounds,
                   changes, nanAsUint32>>
    /\ UNCHANGED <<maskVars, distVars>>

\* distanceRGB on the two colours
DistanceRGB ==
    /\ pc = "dist"
    /\ dist' = distanceRGB(da, db)
    /\ pc' = "distdone"
    /\ UNCHANGED <<da, db>>
    /\ UNCHANGED <<maskVars, kmeansVars>>

-----------------------------------------------------------------------------
(* Inputs.                                                                  *)

Rect(w, h) == [MinX |-> 0, MinY |-> 0, MaxX |-> w, MaxY |-> h]

\* the image rectangles of at most n pixels
Rects(n) == {Rect(s[1], s[2]) : s \in {t \in (1..n) \X (1..n) : t[1] * t[2] <= n}}

Transparent == Pix(0, 0, 0, 0)
\* matches MaskWhite and MaskGreen
PaleGreen == Pix(192, 255, 192, 255)
\* matches MaskWhite only
White == Pix(255, 255, 255, 255)

MaskPalette == {Transparent, PaleGreen, White}

MaskLists == {<<>>, <<MaskWhite>>, <<MaskGreen>>, <<MaskWhite, MaskGreen>>,
              <<MaskGreen, MaskWhite>>, GetDefaultMasks}

ZeroColorItem == ColorItem(0, 0, 0, 0)

KmeansIdle ==
    /\ k = 0
    /\ arguments = ArgumentDefault
    /\ allColors = <<>>
    /\ numPixels = 0
    /\ centroids = <<>>
    /\ taken = {}
    /\ kk = 0
    /\ cent = <<>>
    /\ rounds = 0
    /\ changes = 0
    /\ result = [isNil |-> TRUE, items |-> <<>>]
    /\ err = Nil
    /\ nanAsUint32 = 0

DistIdle ==
    /\ da = ZeroColorItem
    /\ db = ZeroColorItem
    /\ dist = 0

InitMask ==
    /\ pc = "start"
    /\ rect \in Rects(MaskMaxPixels)
    /\ orgimg \in [Points(rect) -> MaskPalette]
    /\ img = orgimg
    /\ bgmasks \in MaskLists
    /\ foundMaskThatmatched = FALSE
    /\ bgmaskToUse = ZeroMask
    /\ pointsToProcess = <<>>
    /\ KmeansIdle
    /\ DistIdle

NextMask ==
    \/ ProcessImg
    \/ ProcessImgOutlineStep
    \/ ProcessImgOutlineDone

SpecMask == InitMask /\ [][NextMask]_vars

\* ProcessImg with the order in which the flood fill takes its points left
\* open
InitFill ==
    /\ pc = "start"
    /\ rect \in Rects(FillMaxPixels)
    /\ orgimg \in [Points(rect) -> MaskPalette]
    /\ img = orgimg
    /\ bgmasks \in MaskLists
    /\ foundMaskThatmatched = FALSE
    /\ bgmaskToUse = ZeroMask
    /\ pointsToProcess = <<>>
    /\ KmeansIdle
    /\ DistIdle

NextFill ==
    \/ ProcessImg
    \/ ProcessImgOutlineStepAnyOrder
    \/ ProcessImgOutlineDone

\* ProcessImg runs on, a step that can be taken is taken: weak fairness of
\* NextFill, whose steps are enabled exactly until ProcessImg has returned
FairFill == []<>(pc = "extract") \/ []<><<NextFill>>_vars

SpecFill == InitFill /\ [][NextFill]_vars /\ FairFill

Black == Pix(0, 0, 0, 255)

\* the pixels of the images given to KmeansWithAll
KmeansPalette == {Transparent, Black, Pix(90, 0, 0, 255), Pix(100, 40, 0, 255)}

\* the argument bits of the model: seeding and averaging
ArgumentSets == {ArgumentDefault, ArgumentSeedRandom, ArgumentAverageMean,
                 ArgumentSeedRandom + ArgumentAverageMean}

\* uint32(NaN) is left to the build: 0 (amd64, arm64) or 4294967295
NaNAsUint32 == {0, -1}

Init ==
    /\ pc = "start"
    /\ rect \in {Rect(w, 1) : w \in 1..MaxPixels}
    /\ orgimg \in [Points(rect) -> KmeansPalette]
    /\ img = orgimg
    /\ bgmasks = GetDefaultMasks
    /\ foundMaskThatmatched = FALSE
    /\ bgmaskToUse = ZeroMask
    /\ pointsToProcess = <<>>
    /\ k \in 1..MaxK
    /\ arguments \in ArgumentSets
    /\ allColors = <<>>
    /\ numPixels = 0
    /\ centroids = <<>>
    /\ taken = {}
    /\ kk = 0
    /\ cent = <<>>
    /\ rounds = 0
    /\ changes = 0
    /\ result = NilResult
    /\ err = Nil
    /\ nanAsUint32 \in IF IsBitSet(arguments, ArgumentAverageMean)
                        THEN NaNAsUint32 ELSE {0}
    /\ DistIdle

Next ==
    \/ ProcessImg
    \/ ProcessImgOutlineStep
    \/ ProcessImgOutlineDone
    \/ KmeansWithAllStart
    \/ kmeansSeedRandom
    \/ kmeansPlusPlusSeedFirst
    \/ kmeansPlusPlusSeedRound
    \/ KmeansRound
    \/ KmeansReturn

Spec == Init /\ [][Next]_vars

\* the pixels of the images of SpecCluster, all opaque
ClusterPalette == <<Black, Pix(90, 0, 0, 255), Pix(100, 40, 0, 255),
                    Pix(60, 60, 0, 255)>>

\* three colours on which the refinement loop does not converge under the
\* LAB metric with the median
CyclePalette == <<Pix(10, 100, 160, 255), Pix(40, 90, 20, 255),
                  Pix(70, 240, 40, 255)>>

ClusterPalettes == {ClusterPalette, CyclePalette}

\* the argument bits of SpecCluster: averaging and metric (the seeding is
\* K-means++, the default)
ClusterArgumentSets ==
    {m + l : m \in {0, ArgumentAverageMean}, l \in {0, ArgumentLAB}}

\* KmeansWithAll called without masks on a one-row image of pixels of
\* different colours of one palette, in its order: without masks the image
\* matters through its colours and their counts only, and the seeding and
\* the refinement loop do not look at the counts
InitCluster ==
    /\ pc = "start"
    /\ rect \in {Rect(w, 1) : w \in 1..MaxClusterPixels}
    /\ \E pal \in ClusterPalettes :
        \E f \in [0..(rect.MaxX - 1) -> 1..Len(pal)] :
          /\ \A x \in 1..(rect.MaxX - 1) : f[x - 1] < f[x]
          /\ orgimg = [p \in Points(rect) |-> pal[f[p[1]]]]
    /\ img = orgimg
    /\ bgmasks = <<>>
    /\ foundMaskThatmatched = FALSE
    /\ bgmaskToUse = ZeroMask
    /\ pointsToProcess = <<>>
    /\ k \in 1..MaxClusterK
    /\ arguments \in ClusterArgumentSets
    /\ allColors = <<>>
    /\ numPixels = 0
    /\ centroids = <<>>
    /\ taken = {}
    /\ kk = 0
    /\ cent = <<>>
    /\ rounds = 0
    /\ changes = 0
    /\ result = NilResult
    /\ err = Nil
    /\ nanAsUint32 \in IF IsBitSet(arguments, ArgumentAverageMean)
                        THEN NaNAsUint32 ELSE {0}
    /\ DistIdle

NextCluster ==
    \/ ProcessImg
    \/ KmeansWithAllStart
    \/ kmeansPlusPlusSeedFirst
    \/ kmeansPlusPlusSeedRound
    \/ KmeansRound
    \/ KmeansReturn

\* KmeansWithAll has returned, or the process has ended
Ended == pc \in {"done", "fatal"}

\* KmeansWithAll runs on, a step that can be taken is taken: weak fairness
\* of NextCluster, whose steps are enabled exactly in the states that have
\* not ended
FairCluster == []<>Ended \/ []<><<NextCluster>>_vars

SpecCluster == InitCluster /\ [][NextCluster]_vars /\ FairCluster

DistChannels == (0..EdgeWidth) \cup ((255 - EdgeWidth)..255)

InitDist ==
    /\ pc = "dist"
    /\ da \in {ColorItem(c[1], c[2], c[3], 0) :
                    c \in DistChannels \X DistChannels \X DistChannels}
    /\ db \in {ColorItem(c[1], c[2], c[3], 0) :
                    c \in DistChannels \X DistChannels \X DistChannels}
    /\ dist = 0
    /\ rect = Rect(1, 1)
    /\ orgimg = [p \in Points(rect) |-> Transparent]
    /\ img = orgimg
    /\ bgmasks = <<>>
    /\ foundMaskThatmatched = FALSE
    /\ bgmaskToUse = ZeroMask
    /\ pointsToProcess = <<>>
    /\ KmeansIdle

NextDist == DistanceRGB

SpecDist == InitDist /\ [][NextDist]_vars

-----------------------------------------------------------------------------
(* Claims about the background masker (checked under SpecMask).             *)

\* the index of the first mask of the list whose corner test passes (0: none)
FirstMatching(masks, rc, image) ==
    IF \E i \in 1..Len(masks) : CornersMatch(masks[i], rc, image)
    THEN CHOOSE i \in 1..Len(masks) :
            /\ CornersMatch(masks[i], rc, image)
            /\ \A j \in 1..(i - 1) : ~CornersMatch(masks[j], rc, image)
    ELSE 0

Adjacent(p, q) ==
    \/ p[1] = q[1] /\ (p[2] = q[2] + 1 \/ q[2] = p[2] + 1)
    \/ p[2] = q[2] /\ (p[1] = q[1] + 1 \/ q[1] = p[1] + 1)

\* the points of ok that a 4-connected path inside ok joins to a point of S
RECURSIVE Reach(_, _)
Reach(S, ok) ==
    LET next == S \cup {q \in ok : \E p \in S : Adjacent(p, q)}
    IN  IF next = S THEN S ELSE Reach(next, ok)

CornerSet(rc) == {Corners(rc)[i] : i \in 1..4}

\* the region of the claim: a transparent pixel counts as matching
RegionThroughTransparent ==
    LET ok == {p \in Points(rect) : ignorePixel(p, bgmaskToUse, orgimg)}
    IN  Reach(CornerSet(rect) \cap ok, ok)

\* the region through pixels that match and are not transparent
RegionOpaque ==
    LET ok == {p \in Points(rect) : /\ ~isPixelTransparent(p, orgimg)
                                    /\ ignorePixel(p, bgmaskToUse, orgimg)}
    IN  Reach(CornerSet(rect) \cap ok, ok)

\* the pixels the flood fill marked
Marked == {p \in Points(rect) : img[p] # orgimg[p]}

\* C8 (as claimed): ProcessImg uses the first mask of the list whose corner
\* test passes, and leaves the image as it was when no mask passes it
C8_FirstMatchingMaskUsed ==
    pc # "start" =>
        LET i == FirstMatching(bgmasks, rect, orgimg)
        IN  IF i = 0 THEN ~foundMaskThatmatched /\ img = orgimg
            ELSE foundMaskThatmatched /\ bgmaskToUse = bgmasks[i]

\* C9 (as claimed): after ProcessImgOutline every pixel of the region reached
\* from the corners through matching pixels, a transparent pixel counting as
\* matching, is ignored, and only pixels of that region are marked
C9_RegionThroughTransparentMarked ==
    (pc = "extract" /\ foundMaskThatmatched) =>
        /\ \A p \in RegionThroughTransparent : isPixelTransparent(p, img)
        /\ Marked \subseteq RegionThroughTransparent

\* C9 (amended): after ProcessImgOutline the marked pixels are exactly the
\* region reached from the corners through pixels that match the mask and
\* were not transparent; every marked pixel is transparent, all others keep
\* their value
C9_RegionOpaqueMarked ==
    (pc = "extract" /\ foundMaskThatmatched) =>
        /\ Marked = RegionOpaque
        /\ \A p \in Marked : isPixelTransparent(p, img)

\* C9 witness: the fill has run, marked a pixel, left a matching pixel that
\* non-matching pixels separate from the corners, and left a matching pixel
\* that only a transparent pixel joins to a corner
C9_Witness ==
    /\ pc = "extract"
    /\ foundMaskThatmatched
    /\ Marked # {}
    /\ \E p \in Points(rect) \ Marked :
            /\ ~isPixelTransparent(p, orgimg)
            /\ ignorePixel(p, bgmaskToUse, orgimg)
            /\ p \notin RegionThroughTransparent
    /\ \E p \in RegionThroughTransparent : ~isPixelTransparent(p, img)

-----------------------------------------------------------------------------
(* Claims about KmeansWithAll (checked under Spec).                         *)

\* the pixels that are not ignored: alpha is not zero after the masking
NonIgnored == {p \in Points(rect) : ~isPixelTransparent(p, img)}

\* the colour a pixel is counted under
Quantized(p) == createColor(img[p]).item.Color

\* the distinct colours of the pixels that are not ignored
DistinctColors == {Quantized(p) : p \in NonIgnored}

\* the frequency table of the image
FreqTable ==
    {[Color |-> c, Cnt |-> Cardinality({p \in NonIgnored : Quantized(p) = c})] :
        c \in DistinctColors}

Min(a, b) == IF a < b THEN a ELSE b

Items == result.items

ReturnedOk == pc = "done" /\ err = Nil

\* C1: on every return without error the Cnt of the returned entries sum to
\* the number of pixels that are not ignored (not transparent before the
\* masking and not marked by it)
C1_CntSumIsNonIgnoredPixels ==
    ReturnedOk =>
        /\ SumCnt(Items) = Cardinality(NonIgnored)
        /\ NonIgnored = {p \in Points(rect) :
                            ~isPixelTransparent(p, orgimg) /\ p \notin Marked}

\* C1 witness: a return from the full clustering of an image with an ignored
\* pixel
C1_Witness ==
    /\ ReturnedOk
    /\ rounds > 0
    /\ NonIgnored # Points(rect)
    /\ SumCnt(Items) >= 2

\* C2 (as claimed): for 1 <= k <= number of distinct colours every returned
\* entry has Cnt > 0
C2_EveryCntPositive ==
    (ReturnedOk /\ k <= Cardinality(DistinctColors)) =>
        \A i \in 1..Len(Items) : Items[i].Cnt > 0

\* C3: for an image with a pixel that is not ignored KmeansWithAll returns,
\* without error, exactly min(k, number of distinct colours) entries
C3_ReturnsMinKDistinctEntries ==
    (pc = "done" /\ NonIgnored # {}) =>
        /\ err = Nil
        /\ ~result.isNil
        /\ Len(Items) = Min(k, Cardinality(DistinctColors))

\* C3 witness: a return from the full clustering with k = 2
C3_Witness ==
    /\ ReturnedOk
    /\ rounds > 0
    /\ k = 2
    /\ Len(Items) = 2

\* C4: the returned list is ordered by Cnt, largest first
C4_OrderedByCnt ==
    ReturnedOk =>
        \A i \in 1..(Len(Items) - 1) : Items[i].Cnt >= Items[i + 1].Cnt

\* C4 witness: a return from the full clustering with two entries of
\* different Cnt
C4_Witness ==
    /\ ReturnedOk
    /\ rounds > 0
    /\ Len(Items) = 2
    /\ Items[1].Cnt > Items[2].Cnt
    /\ Items[2].Cnt > 0

\* C5 (as claimed): entries of equal Cnt are in ascending order of their
\* hexadecimal strings
C5_TiesAscendingHex ==
    ReturnedOk =>
        \A i \in 1..(Len(Items) - 1) :
            Items[i].Cnt = Items[i + 1].Cnt =>
                ~StrLess(AsString(Items[i + 1]), AsString(Items[i]))

\* C5 (amended): entries of equal Cnt are in descending order of their
\* hexadecimal strings
C5_TiesDescendingHex ==
    ReturnedOk =>
        \A i \in 1..(Len(Items) - 1) :
            Items[i].Cnt = Items[i + 1].Cnt =>
                ~StrLess(AsString(Items[i]), AsString(Items[i + 1]))

\* C5 witness: a return with two entries of equal Cnt and different strings
C5_Witness ==
    /\ ReturnedOk
    /\ \E i \in 1..(Len(Items) - 1) :
            /\ Items[i].Cnt = Items[i + 1].Cnt
            /\ AsString(Items[i]) # AsString(Items[i + 1])

\* the clustering was bypassed: at least one and at most k distinct colours
Bypassed ==
    /\ pc = "done"
    /\ Cardinality(DistinctColors) >= 1
    /\ Cardinality(DistinctColors) <= k

\* the list is the frequency table, one entry per colour
IsFreqTable(items) ==
    /\ Len(items) = Cardinality(FreqTable)
    /\ {items[i] : i \in 1..Len(items)} = FreqTable

\* C6 (as claimed): with at most k distinct colours the result is the
\* frequency table, by descending Cnt and then ascending hexadecimal string
C6_BypassAscendingTable ==
    Bypassed =>
        /\ err = Nil
        /\ IsFreqTable(Items)
        /\ \A i \in 1..(Len(Items) - 1) :
                \/ Items[i].Cnt > Items[i + 1].Cnt
                \/ /\ Items[i].Cnt = Items[i + 1].Cnt
                   /\ StrLess(AsString(Items[i]), AsString(Items[i + 1]))

\* C6 (amended): with at most k distinct colours the result is the
\* frequency table, by descending Cnt and then descending hexadecimal
\* string; the image fixes that list, so every run returns it
C6_BypassDescendingTable ==
    Bypassed =>
        /\ err = Nil
        /\ IsFreqTable(Items)
        /\ \A i \in 1..(Len(Items) - 1) :
                \/ Items[i].Cnt > Items[i + 1].Cnt
                \/ /\ Items[i].Cnt = Items[i + 1].Cnt
                   /\ StrLess(AsString(Items[i + 1]), AsString(Items[i]))
        /\ rounds = 0 /\ centroids = <<>>

\* C6 witness: a bypass with two colours, one of them seen twice
C6_Witness ==
    /\ Bypassed
    /\ Len(Items) = 2
    /\ Items[1].Cnt = 2

\* C7: with no pixel left after the masking KmeansWithAll returns nil and an
\* error, and has neither seeded nor clustered
C7_EmptyInputIsError ==
    /\ (pc = "done" /\ NonIgnored = {}) =>
            /\ result.isNil
            /\ err # Nil
            /\ centroids = <<>> /\ taken = {} /\ cent = <<>>
    /\ pc \in {"seed", "plusplus", "loop"} => NonIgnored # {}

\* C7 witness: the error is returned for an image whose pixels were all
\* marked by the mask
C7_Witness ==
    /\ pc = "done"
    /\ err # Nil
    /\ Marked = Points(rect)

-----------------------------------------------------------------------------
(* Claims about distanceRGB (checked under SpecDist).                       *)

\* the squared Euclidean distance of two colours, in the integers
SquaredEuclidean(c, p) ==
    (c.Color.R - p.Color.R) * (c.Color.R - p.Color.R)
        + (c.Color.G - p.Color.G) * (c.Color.G - p.Color.G)
        + (c.Color.B - p.Color.B) * (c.Color.B - p.Color.B)

\* C10: for channels in 0..255 distanceRGB is the squared Euclidean
\* distance; it is symmetric, zero on equal colours and on no others
C10_DistanceRGBIsSquaredEuclidean ==
    pc = "distdone" =>
        /\ dist = SquaredEuclidean(da, db)
        /\ dist = distanceRGB(db, da)
        /\ distanceRGB(da, da) = 0
        /\ dist = 0 => da.Color = db.Color

\* C10 witness: distanceRGB has run on colours whose differences wrap
\* around in uint32 (a channel of the first is below that of the second)
C10_Witness ==
    /\ pc = "distdone"
    /\ da.Color.R < db.Color.R
    /\ da.Color.G < db.Color.G
    /\ da.Color.B < db.Color.B
    /\ dist = 195075

-----------------------------------------------------------------------------
(* Claims about the metric, the seeding and the refinement loop (checked    *)
(* under SpecCluster).                                                      *)

\* C11 (as claimed): a conversion that fails under the LAB metric never ends
\* the process: the comparison falls back to distanceRGB and the run goes on
C11_ConversionFailureIsNotFatal == pc # "fatal"

\* C12: the refinement loop ends in every run. A round is run only after a
\* round with changes (or at the start) and below maxRounds, and it counts
\* one round more; the loop is left for the return with no change in the
\* last round or with maxRounds rounds run, and then the centroids of the
\* last round are returned sorted with a nil error. (A run the process
\* leaves in distanceLAB has ended too: that exit is the matter of C11.)
C12_RefinementLoopTerminates ==
    /\ [](rounds <= maxRounds)
    /\ [][(pc = "loop" /\ pc' = "loop")
            => (changes > 0 /\ rounds < maxRounds /\ rounds' = rounds + 1)]_vars
    /\ [][(pc = "loop" /\ pc' = "done")
            => /\ changes = 0 \/ rounds = maxRounds
               /\ err' = Nil
               /\ result' = Returned(sortCentroids(centroids))]_vars
    /\ (pc = "loop") ~> Ended

\* the cap is reached: maxRounds rounds, the last of them with changes, and
\* the centroids are returned with a nil error
C12_Witness ==
    /\ pc = "done" /\ rounds = maxRounds /\ changes > 0
    /\ err = Nil /\ ~result.isNil /\ result.items = centroids

\* how often the sample c is found in the buckets
TimesInBuckets(c) ==
    Cardinality({ie \in (1..Len(cent)) \X (1..Len(allColors)) :
                    /\ ie[2] <= Len(cent[ie[1]])
                    /\ cent[ie[1]][ie[2]] = c})

\* C13: at the start of the refinement loop and after each of its rounds
\* there are k buckets, every sample is in exactly one of them, once, and
\* the buckets hold nothing else
C13_BucketsPartitionSamples ==
    pc = "loop" =>
        /\ Len(cent) = k
        /\ \A s \in 1..Len(allColors) : TimesInBuckets(allColors[s]) = 1
        /\ SumOf([i \in 1..k |-> Len(cent[i])]) = Len(allColors)

\* rounds were run with fewer centroids than buckets: the third bucket is
\* empty while the samples spread over the other two
C13_Witness ==
    /\ pc = "loop" /\ rounds >= 2 /\ k = 3
    /\ cent[1] # <<>> /\ cent[2] # <<>> /\ cent[3] = <<>>

\* C14 (as claimed): kmeansPlusPlusSeed returns exactly k centroids, which
\* are k pairwise different samples: every round of its loop picks one
\* sample, and never one that is taken
C14_SeedsKDifferentSamples ==
    (pc = "loop" /\ rounds = 0 /\ ~IsBitSet(arguments, ArgumentSeedRandom)) =>
        /\ Len(centroids) = k
        /\ \A i, j \in 1..Len(centroids) : i # j => centroids[i] # centroids[j]
        /\ Cardinality(taken) = k

\* every sample is nearest (findClosest) to the centroid of its own bucket,
\* and no comparison needed to find that out ends the process
FixedPoint ==
    /\ ~roundIsFatal(arguments, centroids, cent)
    /\ \A i \in 1..Len(cent) : \A e \in 1..Len(cent[i]) :
            findClosest(arguments, cent[i][e], centroids) = i

\* C16 (as claimed): when the refinement loop is left after a round without
\* changes, the first round included, the centroids are a fixed point of
\* the assignment step
C16_ZeroChangeExitIsFixedPoint ==
    (pc = "loop" /\ rounds > 0 /\ changes = 0) => FixedPoint

-----------------------------------------------------------------------------
(* Claims about the order of the flood fill (checked under SpecFill).       *)

\* C15: the flood fill ends whatever the order in which the points are
\* taken from the work-list; every point on the work-list lies in the image;
\* a step changes the image only by marking one pixel that was not
\* transparent, and a marked pixel is transparent, so that no pixel is
\* marked twice; and the image left is the one the code's order (last in,
\* first out) leaves
C15_FloodFillOrderFree ==
    /\ [](\A i \in 1..Len(pointsToProcess) : pointsToProcess[i] \in Points(rect))
    /\ [](\A p \in Marked : isPixelTransparent(p, img))
    /\ [][img' # img =>
            \E p \in Points(rect) \ Marked :
                /\ ~isPixelTransparent(p, img)
                /\ img' = markPixel(p, img)]_vars
    /\ []((pc = "extract" /\ foundMaskThatmatched) =>
            img = ProcessImgOutlineFrom(orgimg, Corners(rect), bgmaskToUse, rect))
    /\ <>(pc = "extract")

\* a fill has ended: it marked three pixels or more and left an opaque one
C15_Witness ==
    /\ pc = "extract" /\ foundMaskThatmatched
    /\ Cardinality(Marked) >= 3
    /\ \E p \in Points(rect) \ Marked : ~isPixelTransparent(p, img)

=============================================================================
